---- MODULE Spec2Model ----
(***************************************************************************)
(* Model of the AdyenCheckout provider component                           *)
(* (src/src/AdyenCheckoutContext.tsx): its props, its session state, the   *)
(* subscription ref, start(), the native event listeners and the session   *)
(* round trip.  Every action records, in `calls`, the external calls the   *)
(* handler made, in order, and in `op` which handler ran on which input.   *)
(***************************************************************************)
EXTENDS Integers, Sequences, FiniteSets, TLC

\* ------------------------------------------------------------------ bounds
MaxStarts == 2
MaxCatalogLen == 2
MaxShows == 2
MaxViewStates == 2

\* ------------------------------------------------------------- JS values
Undefined == "undefined"
Null == "null"
Nullish(x) == x \in {Undefined, Null}

UndefinedObject == [tag |-> "undefined"]

\* ------------------------------------------------------------ vocabulary
\* Event names of core/constants, as the listeners name them.
EventNames == {"onSubmit", "onError", "onAdditionalDetails", "onComplete"}

\* Native component handles and the event names each declares (`events`).
NativeComponents == {"AdyenDropIn", "AdyenApplePay"}

events(nativeComponent) ==
    CASE nativeComponent = "AdyenDropIn" ->
             {"onSubmit", "onError", "onAdditionalDetails", "onComplete"}
      [] nativeComponent = "AdyenInstant" ->
             {"onSubmit", "onError", "onAdditionalDetails"}
      [] nativeComponent = "AdyenGooglePay" -> {"onSubmit", "onError", "onComplete"}
      [] OTHER -> {"onSubmit", "onError"}

\* Handles covering every combination of the two optional event names.
EventComponents == NativeComponents \cup {"AdyenInstant", "AdyenGooglePay"}

SessionHelper == "SessionHelper"

TypeNames == {"card", "ideal", "unknown_type"}

\* Payment method records and the catalogs (PaymentMethodsResponse) used as inputs.
PM(t, n) == [type |-> t, name |-> n]

Response(list) == [paymentMethods |-> list]

PaymentMethodsInputs ==
    { UndefinedObject,
      Response(<< >>),
      Response(<<PM("ideal", "iDEAL"), PM("scheme", "Cards")>>) }

\* Every catalog of at most MaxCatalogLen records, for the resolver.
CatalogRecords == {PM(t, n) : t \in {"scheme", "ideal", "card"}, n \in {"A", "B"}}

Catalogs ==
    {Response(list) : list \in UNION {[1..n -> CatalogRecords] : n \in 0..MaxCatalogLen}}

FindTypeNames == TypeNames \cup {"scheme"}

\* The session descriptors the host may supply, each a fresh object supplied at
\* most once, and the catalog the backend answers each with.
Sessions == {"s1", "s2"}

SessionCatalog(s) ==
    IF s = "s1" THEN Response(<<PM("ideal", "iDEAL (session)")>>)
    ELSE Response(<<PM("scheme", "Credit (session)"), PM("scheme", "Debit (session)")>>)

NoDropin == [tag |-> "undefined"]

Configurations ==
    { [environment |-> "test", returnUrl |-> "myapp://cfg", dropin |-> NoDropin],
      [environment |-> "test", returnUrl |-> Undefined, dropin |-> NoDropin],
      [environment |-> Undefined, returnUrl |-> "myapp://cfg", dropin |-> NoDropin] }

\* What createSession may reject with.
Rejections ==
    { [type |-> "object", code |-> 500],
      [type |-> "string", value |-> "timeout"],
      [type |-> "Error", message |-> "Network request failed"] }

\* Payloads of the native events.
SubmitResponse(url, extra) ==
    [paymentData |-> [paymentMethod |-> "pmData", returnUrl |-> url], extra |-> extra]

SubmitResponses ==
    { SubmitResponse(Undefined, "extraData"), SubmitResponse(Null, Undefined),
      SubmitResponse("", "extraData"), SubmitResponse("myapp://payload", Undefined) }

ErrorPayloads ==
    [errorCode : {"canceledByShopper", "unknown"}, message : {"msg"}]

Payloads(e) ==
    CASE e = "onSubmit" -> SubmitResponses
      [] e = "onError" -> ErrorPayloads
      [] e = "onAdditionalDetails" -> {[details |-> "threeds2"]}
      [] OTHER -> {[result |-> "finished"]}

\* ------------------------------------------------------------------ state
VARIABLES
    mounted,        \* the AdyenCheckout component is mounted
    config,         \* prop config
    paymentMethods, \* prop paymentMethods (UndefinedObject when not supplied)
    session,        \* prop session (Undefined when not supplied)
    provided,       \* the optional callback props the host supplied
    sessionStorage, \* useState sessionStorage
    pending,        \* createSession round trips in flight
    requests,       \* the session of every SessionHelper.createSession call so far
    supplied,       \* the session descriptors the host has supplied so far
    resolved,       \* the createSession round trips that resolved
    flows,          \* one record per startEventListeners run
    subscriptions,  \* the ref subscriptions.current: handles <<flow, event>>
    removes,        \* per handle, how often remove() was invoked
    starts,         \* number of start() calls so far
    op,             \* the handler that ran last, with its input and outcome
    calls,          \* the external calls that handler made, in order
    fragments,      \* every InstantFragment instance created so far
    layout          \* the visibility the fragment layout gives the three views

vars == <<mounted, config, paymentMethods, session, provided, sessionStorage,
          pending, requests, supplied, resolved, flows, subscriptions, removes,
          starts, op, calls, fragments, layout>>

\* The state of the instant flow presenter (InstantFragment).
instantVars == <<fragments, layout>>

props == <<config, paymentMethods, session, provided>>

Handles == (1..MaxStarts) \X EventNames

\* ------------------------------------------------------- external calls
CallRemove(h) == [fn |-> "remove", handle |-> h]
CallAddListener(nc, e) == [fn |-> "addListener", emitter |-> nc, event |-> e]
CallOpen(nc, pms, cfg) ==
    [fn |-> "open", component |-> nc, paymentMethods |-> pms, configuration |-> cfg]
CallHide(nc, animated) == [fn |-> "hide", component |-> nc, animated |-> animated]
CallOnSubmit(payload, nc, extra) ==
    [fn |-> "host.onSubmit", data |-> payload, component |-> nc, extra |-> extra]
CallOnError(error, nc) == [fn |-> "host.onError", error |-> error, component |-> nc]
CallOnAdditionalDetails(data, nc) ==
    [fn |-> "host.onAdditionalDetails", data |-> data, component |-> nc]
CallOnComplete(data, nc) ==
    [fn |-> "host.onComplete", result |-> data, component |-> nc]
CallCreateSession(s, cfg) ==
    [fn |-> "SessionHelper.createSession", session |-> s, configuration |-> cfg]
CallSetSession(r) == [fn |-> "setSession", value |-> r]

\* ------------------------------------------------------- pure functions
mapCreatedComponentTypeIdentity(pmType) == pmType

mapCreatedComponentType(pmType) == IF pmType = "card" THEN "scheme" ELSE pmType

\* Array.prototype.find: the first match, or undefined.
RECURSIVE FirstMatch(_, _, _)
FirstMatch(list, t, i) ==
    IF i > Len(list) THEN UndefinedObject
    ELSE IF list[i].type = t THEN list[i]
    ELSE FirstMatch(list, t, i + 1)

find(pms, typeName) ==
    FirstMatch(pms.paymentMethods, mapCreatedComponentType(typeName), 1)

\* paymentMethods ?? sessionStorage?.paymentMethods
SessionFirstCatalog ==
    IF sessionStorage # UndefinedObject /\ sessionStorage.paymentMethods # UndefinedObject
    THEN sessionStorage.paymentMethods
    ELSE paymentMethods

EffectiveCatalog ==
    IF paymentMethods # UndefinedObject THEN paymentMethods
    ELSE IF sessionStorage = UndefinedObject THEN UndefinedObject
    ELSE sessionStorage.paymentMethods

\* The value of AdyenCheckoutContext.Provider.
ContextValue == [config |-> config, paymentMethods |-> EffectiveCatalog]

\* core/utils: TRUE when the check passes, FALSE when it throws.
checkPaymentMethodsResponse(pms) ==
    pms # UndefinedObject /\ Len(pms.paymentMethods) > 0

checkConfiguration(cfg) == cfg.environment # Undefined

JSONStringify(e) ==
    CASE e.type = "object" -> "{\"code\":" \o ToString(e.code) \o "}"
      [] e.type = "string" -> "\"" \o e.value \o "\""
      [] OTHER -> "{}"

\* ------------------------------------------------------------- listeners
HandleOf(i, e) == <<i, e>>

Exists(h) == h[1] <= Len(flows) /\ \E k \in 1..Len(flows[h[1]].attached) :
                                       flows[h[1]].attached[k] = h[2]

\* A subscription is live from addListener until its first remove().
Live(h) == Exists(h) /\ removes[h] = 0

LiveHandles == {h \in Handles : Live(h)}

InSubscriptions(h) == \E k \in 1..Len(subscriptions) : subscriptions[k] = h

\* removeEventListeners: subscriptions.current.forEach((s) => s.remove()).
\* The ref itself is left as it is.
RemoveCalls == [k \in 1..Len(subscriptions) |-> CallRemove(subscriptions[k])]

removeNothing == removes

removeEventListeners ==
    [h \in Handles |-> IF InSubscriptions(h) THEN removes[h] + 1 ELSE removes[h]]

\* The payload submitPayment builds: {...data, returnUrl: data.returnUrl ?? configuration.returnUrl}
submitPayloadOr(configuration, data) ==
    [data EXCEPT !.returnUrl = IF Nullish(data.returnUrl) \/ data.returnUrl = ""
                               THEN configuration.returnUrl
                               ELSE data.returnUrl]

submitPayload(configuration, data) ==
    [data EXCEPT !.returnUrl = IF Nullish(data.returnUrl)
                               THEN configuration.returnUrl
                               ELSE data.returnUrl]

\* submitPayment: onSubmit?.(payload, nativeComponent, extra)
submitPayment(configuration, data, nativeComponent, extra) ==
    IF "onSubmit" \in provided
    THEN <<CallOnSubmit(submitPayload(configuration, data), nativeComponent, extra)>>
    ELSE << >>

\* The onSubmit listener of startEventListeners.
onSubmitListener(configuration, nativeComponent, response) ==
    <<CallHide(nativeComponent, FALSE)>>
    \o submitPayment(configuration, response.paymentData, nativeComponent, response.extra)

\* The onError listener of startEventListeners.
onErrorListenerHideAlways(nativeComponent, error) ==
    <<CallOnError(error, nativeComponent), CallHide(nativeComponent, FALSE)>>

onErrorListener(nativeComponent, error) ==
    (IF error.errorCode = "canceledByShopper"
     THEN <<CallHide(nativeComponent, FALSE)>> ELSE << >>)
    \o <<CallOnError(error, nativeComponent)>>

onAdditionalDetailsListener(nativeComponent, data) ==
    IF "onAdditionalDetails" \in provided
    THEN <<CallOnAdditionalDetails(data, nativeComponent)>> ELSE << >>

onCompleteListener(nativeComponent, data) ==
    IF "onComplete" \in provided
    THEN <<CallOnComplete(data, nativeComponent)>> ELSE << >>

\* What the listener behind handle <<i, e>> does with a payload.
Listener(i, e, payload) ==
    CASE e = "onSubmit" ->
             onSubmitListener(flows[i].configuration, flows[i].nativeComponent, payload)
      [] e = "onError" -> onErrorListener(flows[i].nativeComponent, payload)
      [] e = "onAdditionalDetails" ->
             onAdditionalDetailsListener(flows[i].nativeComponent, payload)
      [] OTHER -> onCompleteListener(flows[i].nativeComponent, payload)

\* The events startEventListeners subscribes to on a component, in order.
attachedEventsAll(nativeComponent) ==
    <<"onSubmit", "onError", "onAdditionalDetails", "onComplete">>

attachedEvents(nativeComponent) ==
    <<"onSubmit", "onError">>
    \o (IF "onAdditionalDetails" \in events(nativeComponent)
        THEN <<"onAdditionalDetails">> ELSE << >>)
    \o (IF "onComplete" \in events(nativeComponent) THEN <<"onComplete">> ELSE << >>)

\* An event emitted by a native component reaches every live subscription
\* made on that component's emitter for that event name, oldest first.
RECURSIVE Deliver(_, _, _, _)
Deliver(i, nc, e, payload) ==
    IF i > Len(flows) THEN << >>
    ELSE (IF flows[i].nativeComponent = nc /\ Live(HandleOf(i, e))
          THEN Listener(i, e, payload) ELSE << >>)
         \o Deliver(i + 1, nc, e, payload)

\* ----------------------------------------------------------------- start
\* getNativeComponent: the native handle for the type name (chosen outside
\* this file) and the payment method record found for it.
getNativeComponent(typeName, current, nc) ==
    [nativeComponent |-> nc, paymentMethod |-> find(current, typeName)]

\* The order of the pre-flight checks in start.
startOutcomeNoValidation(current, cfg) ==
    IF ~checkPaymentMethodsResponse(current) THEN "PaymentMethodsError" ELSE "ok"

startOutcome(current, cfg) ==
    IF ~checkPaymentMethodsResponse(current) THEN "PaymentMethodsError"
    ELSE IF ~checkConfiguration(cfg) THEN "ConfigurationError"
    ELSE "ok"

\* The arguments of nativeComponent.open.
openArgumentsFull(paymentMethod, current, cfg) ==
    [paymentMethods |-> current, configuration |-> cfg]

openArguments(paymentMethod, current, cfg) ==
    IF paymentMethod # UndefinedObject
    THEN [paymentMethods |-> Response(<<paymentMethod>>),
          configuration |->
              [cfg EXCEPT !.dropin = [skipListWhenSinglePaymentMethod |-> TRUE]]]
    ELSE [paymentMethods |-> current, configuration |-> cfg]

start(typeName, nc) ==
    /\ mounted
    /\ starts < MaxStarts
    /\ LET current == EffectiveCatalog
           outcome == startOutcome(current, config)
           flowNo == Len(flows) + 1
           attached == attachedEvents(nc)
       IN /\ removes' = removeEventListeners
          /\ starts' = starts + 1
          /\ IF outcome = "ok"
             THEN LET found == getNativeComponent(typeName, current, nc)
                      args == openArguments(found.paymentMethod, current, config)
                  IN /\ flows' = Append(flows, [nativeComponent |-> nc,
                                                configuration |-> config,
                                                attached |-> attached])
                     /\ subscriptions' =
                            [k \in 1..Len(attached) |-> HandleOf(flowNo, attached[k])]
                     /\ calls' = RemoveCalls
                                 \o [k \in 1..Len(attached) |->
                                        CallAddListener(nc, attached[k])]
                                 \o <<CallOpen(nc, args.paymentMethods,
                                               args.configuration)>>
             ELSE /\ UNCHANGED <<flows, subscriptions>>
                  /\ calls' = RemoveCalls
          /\ op' = [name |-> "start", typeName |-> typeName, nativeComponent |-> nc,
                    outcome |-> outcome]
    /\ UNCHANGED <<mounted, props, sessionStorage, pending, requests, supplied>>
    /\ UNCHANGED <<resolved, instantVars>>

\* The cleanup of the mount effect.
unmount ==
    /\ mounted
    /\ mounted' = FALSE
    /\ removes' = removeEventListeners
    /\ calls' = RemoveCalls
    /\ op' = [name |-> "unmount"]
    /\ UNCHANGED <<props, sessionStorage, pending, requests, supplied, flows,
                   subscriptions, starts>>
    /\ UNCHANGED <<resolved, instantVars>>

\* A native component that has been opened emits an event.
emit(nc, e, payload) ==
    /\ \E i \in 1..Len(flows) : flows[i].nativeComponent = nc
    /\ calls' = Deliver(1, nc, e, payload)
    /\ op' = [name |-> "emit", component |-> nc, event |-> e, payload |-> payload]
    /\ UNCHANGED <<mounted, props, sessionStorage, pending, requests, supplied,
                   flows, subscriptions, removes, starts>>
    /\ UNCHANGED <<resolved, instantVars>>

\* --------------------------------------------------------------- session
\* createSession: the call; its then/catch run in sessionResolve/sessionReject.
createSession(s) ==
    /\ requests' = Append(requests, s)
    /\ pending' = pending \cup {Len(requests) + 1}
    /\ calls' = <<CallCreateSession(s, config)>>

\* The host renders with another session prop; the effect on [session] runs.
setSessionProp(s) ==
    /\ mounted
    /\ s # session
    /\ s \notin supplied
    /\ session' = s
    /\ IF s # Undefined
       THEN supplied' = supplied \cup {s} /\ createSession(s)
       ELSE UNCHANGED <<pending, requests, supplied>> /\ calls' = << >>
    /\ op' = [name |-> "setSession", session |-> s]
    /\ UNCHANGED <<mounted, config, paymentMethods, provided, sessionStorage, flows,
                   subscriptions, removes, starts>>
    /\ UNCHANGED <<resolved, instantVars>>

\* The host renders with another config prop.
setConfigProp(c) ==
    /\ mounted
    /\ c # config
    /\ config' = c
    /\ calls' = << >>
    /\ op' = [name |-> "setConfig"]
    /\ UNCHANGED <<mounted, paymentMethods, session, provided, sessionStorage,
                   pending, requests, supplied, flows, subscriptions, removes, starts>>
    /\ UNCHANGED <<resolved, instantVars>>

\* .then((sessionResponse) => setSession(sessionResponse)); a state update of
\* an unmounted component is dropped by React.
sessionResolve(r) ==
    /\ r \in pending
    /\ pending' = pending \ {r}
    /\ LET sessionResponse == [session |-> requests[r],
                               paymentMethods |-> SessionCatalog(requests[r])]
       IN /\ sessionStorage' = IF mounted THEN sessionResponse ELSE sessionStorage
          /\ calls' = <<CallSetSession(sessionResponse)>>
    /\ op' = [name |-> "sessionResolve", request |-> r]
    /\ resolved' = resolved \cup {r}
    /\ UNCHANGED <<mounted, props, requests, supplied, flows, subscriptions, removes,
                   starts>>
    /\ UNCHANGED instantVars

\* What the catch handler of createSession does with the rejection.
catchCallsAsComponent(e) ==
    <<CallOnError([message |-> e.type, errorCode |-> "sessionError"], "AdyenDropIn")>>

catchCalls(e) ==
    <<CallOnError([message |-> JSONStringify(e), errorCode |-> "sessionError"],
                  SessionHelper)>>

sessionRejectRetry(r, e) ==
    /\ r \in pending
    /\ requests' = Append(requests, requests[r])
    /\ pending' = (pending \ {r}) \cup {Len(requests) + 1}
    /\ Len(requests) < 4
    /\ calls' = catchCalls(e)
    /\ op' = [name |-> "sessionReject", request |-> r, rejection |-> e]
    /\ UNCHANGED <<mounted, props, sessionStorage, supplied, flows, subscriptions,
                   removes, starts>>
    /\ UNCHANGED <<resolved, instantVars>>

sessionReject(r, e) ==
    /\ r \in pending
    /\ pending' = pending \ {r}
    /\ calls' = catchCalls(e)
    /\ op' = [name |-> "sessionReject", request |-> r, rejection |-> e]
    /\ UNCHANGED <<mounted, props, sessionStorage, requests, supplied, flows,
                   subscriptions, removes, starts>>
    /\ UNCHANGED <<resolved, instantVars>>

\* ---------------------------------------------------------- specification
AllCallbacks == {"onSubmit", "onAdditionalDetails", "onComplete"}

\* The state after the first render and its effects: nothing subscribed, and
\* one createSession under way when a session prop was supplied.
InitWith(sessionInputs, callbackInputs) ==
    /\ mounted = TRUE
    /\ config \in Configurations
    /\ paymentMethods \in PaymentMethodsInputs
    /\ session \in sessionInputs \cup {Undefined}
    /\ provided \in callbackInputs
    /\ sessionStorage = UndefinedObject
    /\ requests = IF session # Undefined THEN <<session>> ELSE << >>
    /\ supplied = IF session # Undefined THEN {session} ELSE {}
    /\ pending = IF session # Undefined THEN {1} ELSE {}
    /\ resolved = {}
    /\ flows = << >>
    /\ subscriptions = << >>
    /\ removes = [h \in Handles |-> 0]
    /\ starts = 0
    /\ op = [name |-> "mount"]
    /\ calls = IF session # Undefined
               THEN <<CallCreateSession(session, config)>> ELSE << >>
    /\ fragments = << >>
    /\ layout = [errorView |-> FALSE, progressIndicator |-> FALSE,
                 componentContainer |-> FALSE]

\* The checkout flow: one session descriptor, every native event.
Init == InitWith({"s1"}, {AllCallbacks, {}})

Next ==
    \/ \E t \in TypeNames, nc \in NativeComponents : start(t, nc)
    \/ unmount
    \/ \E nc \in NativeComponents, e \in EventNames :
           \E payload \in Payloads(e) : emit(nc, e, payload)
    \/ \E s \in {"s1", Undefined} : setSessionProp(s)
    \/ \E c \in Configurations : setConfigProp(c)
    \/ \E r \in pending : sessionResolve(r)
    \/ \E r \in pending, e \in Rejections : sessionReject(r, e)

Spec == Init /\ [][Next]_vars

\* The session round trips: every session descriptor, no native event.
InitSession == InitWith(Sessions, {AllCallbacks})

NextSession ==
    \/ \E t \in TypeNames, nc \in NativeComponents : start(t, nc)
    \/ unmount
    \/ \E s \in Sessions \cup {Undefined} : setSessionProp(s)
    \/ \E c \in Configurations : setConfigProp(c)
    \/ \E r \in pending : sessionResolve(r)
    \/ \E r \in pending, e \in Rejections : sessionReject(r, e)

SpecSession == InitSession /\ [][NextSession]_vars

\* The event bridge: every capability set, every native event, no session.
InitEvents == InitWith({}, {AllCallbacks, {}})

NextEvents ==
    \/ \E nc \in EventComponents : start("ideal", nc)
    \/ unmount
    \/ \E nc \in EventComponents, e \in EventNames :
           \E payload \in Payloads(e) : emit(nc, e, payload)

SpecEvents == InitEvents /\ [][NextEvents]_vars

\* The resolver alone: every catalog, every requested type name.
callFind(typeName) ==
    /\ op' = [name |-> "find", typeName |-> typeName,
              result |-> find(paymentMethods, typeName)]
    /\ calls' = << >>
    /\ UNCHANGED <<mounted, props, sessionStorage, pending, requests, supplied,
                   resolved, flows, subscriptions, removes, starts, instantVars>>

InitFind ==
    /\ mounted = TRUE
    /\ config = [environment |-> "test", returnUrl |-> "myapp://cfg", dropin |-> NoDropin]
    /\ paymentMethods \in Catalogs
    /\ session = Undefined
    /\ provided = AllCallbacks
    /\ sessionStorage = UndefinedObject
    /\ requests = << >>
    /\ supplied = {}
    /\ pending = {}
    /\ resolved = {}
    /\ flows = << >>
    /\ subscriptions = << >>
    /\ removes = [h \in Handles |-> 0]
    /\ starts = 0
    /\ op = [name |-> "mount"]
    /\ calls = << >>
    /\ fragments = << >>
    /\ layout = [errorView |-> FALSE, progressIndicator |-> FALSE,
                 componentContainer |-> FALSE]

NextFind == \E typeName \in FindTypeNames : callFind(typeName)

SpecFind == InitFind /\ [][NextFind]_vars

\* ------------------------------------------------------- InstantFragment
\* Model of the instant flow presenter (src/unnamed/part_000): the fragment
\* instances the companion adds under TAG, each with its binding, its
\* component and the visibility of its three views.
TAG == "InstantFragment"

PaymentMethodTypes == {"ideal", "paypal"}

Actions == {"redirect", "threeDS2"}

Intents == {"intent1", "intent2"}

\* InstantViewState
Loading == [tag |-> "Loading", errorMessage |-> ""]
Error(errorMessage) == [tag |-> "Error", errorMessage |-> errorMessage]
ShowComponent == [tag |-> "ShowComponent", errorMessage |-> ""]

InstantViewStates == {Loading, Error("Refused"), ShowComponent}

\* InstantEvent
AdditionalAction(action) == [tag |-> "AdditionalAction", action |-> action, result |-> ""]
PaymentResult(result) == [tag |-> "PaymentResult", action |-> "", result |-> result]

InstantEvents == {AdditionalAction(a) : a \in Actions} \cup {PaymentResult("Authorised")}

\* What FragmentInstantBinding.inflate may give the three views.
Layouts == [errorView : BOOLEAN, progressIndicator : BOOLEAN, componentContainer : BOOLEAN]

checkoutVars == <<mounted, props, sessionStorage, pending, requests, supplied, resolved,
                  flows, subscriptions, removes, starts>>

CallShow(f) == [fn |-> "DialogFragment.show", fragment |-> f, tag |-> TAG]
CallDismiss(f) == [fn |-> "dismiss", fragment |-> f]
CallViewModelHandle(f, action) ==
    [fn |-> "instantViewModel.handle", fragment |-> f, action |-> action]
CallAttach(f) == [fn |-> "componentView.attach", fragment |-> f]
CallHandleIntent(f, intent) == [fn |-> "handleIntent", fragment |-> f, intent |-> intent]
CallHandleAction(f, action) == [fn |-> "handleAction", fragment |-> f, action |-> action]
CallToast(result) == [fn |-> "Toast.show", text |-> result]

\* A new instance: no binding, no component, no view yet.  `viewStates` and
\* `errorSeen` record what onViewState was given and whether the error text
\* has been visible since.
InstantFragment(paymentMethodType) ==
    [paymentMethodType |-> paymentMethodType,
     added |-> TRUE,
     view |-> "none",
     binding |-> FALSE,
     instantPaymentComponent |-> Null,
     errorView |-> FALSE, errorText |-> "",
     progressIndicator |-> FALSE,
     componentContainer |-> FALSE,
     componentData |-> FALSE,
     viewStates |-> << >>,
     errorSeen |-> FALSE]

\* FragmentManager.findFragmentByTag(TAG): the instance added last under the
\* tag, 0 for null.
AddedFragments == {f \in 1..Len(fragments) : fragments[f].added}

findFragmentByTag ==
    IF AddedFragments = {} THEN 0
    ELSE CHOOSE f \in AddedFragments : \A g \in AddedFragments : g <= f

\* `findFragmentByTag(TAG) as InstantFragment`: the cast of null throws.
castOrNull(found) == "ok"

castAsInstantFragment(found) ==
    IF found = 0 THEN "NullPointerException" ELSE "ok"

\* onDestroyView: instantPaymentComponent = null; _binding = null.
onDestroyViewKeepComponent(fr) ==
    [fr EXCEPT !.view = "destroyed", !.binding = FALSE]

onDestroyViewOf(fr) ==
    [fr EXCEPT !.view = "destroyed", !.binding = FALSE,
               !.instantPaymentComponent = Null]

\* dismiss(): the instance leaves the fragment manager and its view, when it
\* has one, is destroyed.
dismiss(fr) ==
    IF fr.view \in {"created", "started"}
    THEN onDestroyViewOf([fr EXCEPT !.added = FALSE])
    ELSE [fr EXCEPT !.added = FALSE]

\* The three visibilities onViewState assigns.
viewStateVisibilityKeepProgress(viewState) ==
    [errorView |-> viewState.tag = "Error",
     progressIndicator |-> viewState.tag \in {"Loading", "ShowComponent"},
     componentContainer |-> viewState.tag = "ShowComponent"]

viewStateVisibility(viewState) ==
    CASE viewState.tag = "Error" ->
             [errorView |-> TRUE, progressIndicator |-> FALSE,
              componentContainer |-> FALSE]
      [] viewState.tag = "Loading" ->
             [errorView |-> FALSE, progressIndicator |-> TRUE,
              componentContainer |-> FALSE]
      [] OTHER ->
             [errorView |-> FALSE, progressIndicator |-> FALSE,
              componentContainer |-> TRUE]

\* onAction: instantPaymentComponent?.handleAction(action, requireActivity())
onActionDropped(fr, f, action) == << >>

onAction(fr, f, action) ==
    IF fr.instantPaymentComponent # Null THEN <<CallHandleAction(f, action)>> ELSE << >>

\* companion show: a new instance is added under TAG, whatever is there.
show(paymentMethodType) ==
    /\ Len(fragments) < MaxShows
    /\ fragments' = Append(fragments, InstantFragment(paymentMethodType))
    /\ calls' = <<CallShow(Len(fragments) + 1)>>
    /\ op' = [name |-> "show", paymentMethodType |-> paymentMethodType]
    /\ UNCHANGED <<checkoutVars, layout>>

\* companion handle
handle(action) ==
    LET found == findFragmentByTag
        outcome == castAsInstantFragment(found)
    IN /\ calls' = IF outcome = "ok" /\ found # 0
                   THEN <<CallViewModelHandle(found, action)>> ELSE << >>
       /\ op' = [name |-> "handle", action |-> action, found |-> found,
                 outcome |-> outcome]
       /\ UNCHANGED <<checkoutVars, fragments, layout>>

\* companion hide
hide ==
    LET found == findFragmentByTag
        outcome == castAsInstantFragment(found)
    IN /\ IF outcome = "ok" /\ found # 0
          THEN /\ fragments' = [fragments EXCEPT ![found] = dismiss(@)]
               /\ calls' = <<CallDismiss(found)>>
          ELSE /\ UNCHANGED fragments
               /\ calls' = << >>
       /\ op' = [name |-> "hide", found |-> found, outcome |-> outcome]
       /\ UNCHANGED <<checkoutVars, layout>>

\* onCreateView: the binding is inflated.
onCreateView(f) ==
    /\ fragments[f].added
    /\ fragments[f].view = "none"
    /\ fragments' = [fragments EXCEPT ![f] =
                         [@ EXCEPT !.view = "created", !.binding = TRUE,
                                   !.errorView = layout.errorView,
                                   !.progressIndicator = layout.progressIndicator,
                                   !.componentContainer = layout.componentContainer]]
    /\ calls' = << >>
    /\ op' = [name |-> "onCreateView", fragment |-> f]
    /\ UNCHANGED <<checkoutVars, layout>>

\* onViewCreated: the three collectors run from now until the view is destroyed.
onViewCreated(f) ==
    /\ fragments[f].view = "created"
    /\ fragments' = [fragments EXCEPT ![f].view = "started"]
    /\ calls' = << >>
    /\ op' = [name |-> "onViewCreated", fragment |-> f]
    /\ UNCHANGED <<checkoutVars, layout>>

\* onNewIntent: instantPaymentComponent?.handleIntent(intent)
onNewIntent(f, intent) ==
    /\ calls' = IF fragments[f].instantPaymentComponent # Null
                THEN <<CallHandleIntent(f, intent)>> ELSE << >>
    /\ op' = [name |-> "onNewIntent", fragment |-> f, intent |-> intent]
    /\ UNCHANGED <<checkoutVars, fragments, layout>>

\* The single item of instantComponentDataFlow arrives.
setupInstantComponent(f) ==
    /\ fragments[f].view = "started"
    /\ ~fragments[f].componentData
    /\ fragments' = [fragments EXCEPT ![f] =
                         [@ EXCEPT !.instantPaymentComponent = "InstantPaymentComponent",
                                   !.componentData = TRUE]]
    /\ calls' = <<CallAttach(f)>>
    /\ op' = [name |-> "setupInstantComponent", fragment |-> f]
    /\ UNCHANGED <<checkoutVars, layout>>

\* An item of instantViewState arrives.
onViewState(f, viewState) ==
    /\ fragments[f].view = "started"
    /\ Len(fragments[f].viewStates) < MaxViewStates
    /\ LET visibility == viewStateVisibility(viewState)
       IN fragments' = [fragments EXCEPT ![f] =
              [@ EXCEPT !.errorView = visibility.errorView,
                        !.errorText = IF viewState.tag = "Error"
                                      THEN viewState.errorMessage ELSE @,
                        !.progressIndicator = visibility.progressIndicator,
                        !.componentContainer = visibility.componentContainer,
                        !.viewStates = Append(@, viewState.tag),
                        !.errorSeen = @ \/ visibility.errorView]]
    /\ calls' = << >>
    /\ op' = [name |-> "onViewState", fragment |-> f, viewState |-> viewState]
    /\ UNCHANGED <<checkoutVars, layout>>

\* onPaymentResult: Toast, then dismiss().
onPaymentResult(f, result) ==
    /\ fragments' = [fragments EXCEPT ![f] = dismiss(@)]
    /\ calls' = <<CallToast(result), CallDismiss(f)>>

\* An item of events arrives.
onEvent(f, event) ==
    /\ fragments[f].view = "started"
    /\ IF event.tag = "AdditionalAction"
       THEN /\ calls' = onAction(fragments[f], f, event.action)
            /\ UNCHANGED fragments
       ELSE onPaymentResult(f, event.result)
    /\ op' = [name |-> "onEvent", fragment |-> f, event |-> event]
    /\ UNCHANGED <<checkoutVars, layout>>

\* The framework destroys the view of an instance that is still added.
onDestroyView(f) ==
    /\ fragments[f].view \in {"created", "started"}
    /\ fragments' = [fragments EXCEPT ![f] = onDestroyViewOf(@)]
    /\ calls' = << >>
    /\ op' = [name |-> "onDestroyView", fragment |-> f]
    /\ UNCHANGED <<checkoutVars, layout>>

\* No checkout component is involved in the instant flow.
InitNoCheckout ==
    /\ mounted = FALSE
    /\ config = [environment |-> "test", returnUrl |-> "myapp://cfg", dropin |-> NoDropin]
    /\ paymentMethods = UndefinedObject
    /\ session = Undefined
    /\ provided = {}
    /\ sessionStorage = UndefinedObject
    /\ requests = << >>
    /\ supplied = {}
    /\ pending = {}
    /\ resolved = {}
    /\ flows = << >>
    /\ subscriptions = << >>
    /\ removes = [h \in Handles |-> 0]
    /\ starts = 0

\* The companion: show, handle and hide on the fragment manager, and the
\* views of the instances coming and going.
InitPresenter ==
    /\ InitNoCheckout
    /\ fragments = << >>
    /\ layout = [errorView |-> FALSE, progressIndicator |-> TRUE,
                 componentContainer |-> FALSE]
    /\ op = [name |-> "init"]
    /\ calls = << >>

NextPresenter ==
    \/ \E t \in PaymentMethodTypes : show(t)
    \/ \E a \in Actions : handle(a)
    \/ hide
    \/ \E f \in 1..Len(fragments) : onCreateView(f)
    \/ \E f \in 1..Len(fragments) : onDestroyView(f)

SpecPresenter == InitPresenter /\ [][NextPresenter]_vars

\* One instance, just shown: its lifecycle, its three streams, the
\* redelivered intents and the companion calls on it.
InitInstant ==
    /\ InitNoCheckout
    /\ \E t \in PaymentMethodTypes : fragments = <<InstantFragment(t)>>
    /\ layout \in Layouts
    /\ op = [name |-> "show"]
    /\ calls = <<CallShow(1)>>

NextInstant ==
    \/ \E f \in 1..Len(fragments) : onCreateView(f)
    \/ \E f \in 1..Len(fragments) : onViewCreated(f)
    \/ \E f \in 1..Len(fragments), i \in Intents : onNewIntent(f, i)
    \/ \E f \in 1..Len(fragments) : setupInstantComponent(f)
    \/ \E f \in 1..Len(fragments), vs \in InstantViewStates : onViewState(f, vs)
    \/ \E f \in 1..Len(fragments), ev \in InstantEvents : onEvent(f, ev)
    \/ \E f \in 1..Len(fragments) : onDestroyView(f)
    \/ \E a \in Actions : handle(a)
    \/ hide

SpecInstant == InitInstant /\ [][NextInstant]_vars

\* ------------------------------------------------------------ properties
Count(fn) == Len(SelectSeq(calls, LAMBDA c : c.fn = fn))

FlowHandles(i) == {HandleOf(i, flows[i].attached[k]) : k \in 1..Len(flows[i].attached)}

StartRan == op.name = "start"

StartPassed == op.name = "start" /\ op.outcome = "ok"

StartFailed == op.name = "start" /\ op.outcome # "ok"

\* The last flow's subscription for event e is live on the component nc.
LiveOn(nc, e) ==
    /\ Len(flows) > 0
    /\ flows[Len(flows)].nativeComponent = nc
    /\ Live(HandleOf(Len(flows), e))

\* C1: no two subscription sets are ever live together, and the live one is the
\* latest start's; a start that attaches (passes pre-flight) first removes every
\* earlier subscription and leaves exactly its own set live; an onSubmit event
\* then runs exactly one handler and the host onSubmit callback once.
C1_OneLiveSubscriptionSet ==
    /\ \A h \in LiveHandles : h[1] = Len(flows) /\ InSubscriptions(h)
    /\ StartPassed =>
           /\ LiveHandles = FlowHandles(Len(flows))
           /\ LiveHandles # {}
           /\ \A i \in 1..(Len(flows) - 1) : \A h \in FlowHandles(i) : removes[h] >= 1
           /\ \A i, j \in 1..Len(calls) :
                  calls[i].fn = "remove" /\ calls[j].fn = "addListener" => i < j
    /\ (op.name = "emit" /\ op.event = "onSubmit") =>
           /\ Count("hide") <= 1
           /\ Count("host.onSubmit") <= 1
           /\ LiveOn(op.component, "onSubmit") =>
                  /\ Count("hide") = 1
                  /\ "onSubmit" \in provided => Count("host.onSubmit") = 1

\* Two starts on the same native component, then a submit event from it: one
\* handler ran and the host callback fired once.
C1_Witness ==
    /\ op.name = "emit" /\ op.event = "onSubmit"
    /\ Len(flows) = 2
    /\ flows[1].nativeComponent = flows[2].nativeComponent
    /\ op.component = flows[2].nativeComponent
    /\ mounted
    /\ Count("hide") = 1
    /\ Count("host.onSubmit") = 1

\* C2: remove() is invoked at most once on each subscription handle, whatever
\* the sequence of start and unmount.
C2_RemoveInvokedOncePerHandle == \A h \in Handles : removes[h] <= 1

\* C3: a start with a configuration that fails validation opens nothing and
\* attaches no listener; it ends in an error, which is the ConfigurationError
\* whenever the catalog check before it passed.
C3_InvalidConfigurationAborts ==
    (StartRan /\ ~checkConfiguration(config)) =>
        /\ op.outcome # "ok"
        /\ Count("open") = 0
        /\ Count("addListener") = 0
        /\ checkPaymentMethodsResponse(EffectiveCatalog) =>
               op.outcome = "ConfigurationError"

\* A start that reached validation with a usable catalog and failed there.
C3_Witness ==
    /\ StartRan
    /\ config.environment = Undefined
    /\ checkPaymentMethodsResponse(EffectiveCatalog)
    /\ op.outcome = "ConfigurationError"
    /\ Count("open") = 0

\* C4 as stated: a start that fails pre-flight leaves the live subscription set
\* live and unreleased, and opens nothing.
C4_FailedStartHasNoSideEffects ==
    [][(op'.name = "start" /\ op'.outcome # "ok") =>
           /\ LiveHandles' = LiveHandles
           /\ removes' = removes
           /\ Count("open")' = 0]_vars

\* C4 amended: a start that fails pre-flight opens nothing and attaches no
\* listener, but it has already detached: no subscription is live after it, and
\* remove() was invoked on every handle of the subscription ref.
C4_FailedStartOnlyDetaches ==
    StartFailed =>
        /\ Count("open") = 0
        /\ Count("addListener") = 0
        /\ LiveHandles = {}
        /\ Count("remove") = Len(subscriptions)
        /\ \A k \in 1..Len(subscriptions) : removes[subscriptions[k]] >= 1

\* A failed start that followed a successful one: the earlier flow's
\* subscriptions were removed by it.
C4_Witness ==
    /\ StartFailed
    /\ Len(flows) = 1
    /\ Count("remove") >= 2
    /\ \A h \in FlowHandles(1) : removes[h] = 1

\* C5: a start that passes pre-flight calls open exactly once, as the last call,
\* on the chosen component: with the one matching record and
\* skipListWhenSinglePaymentMethod = TRUE when the catalog has a record of the
\* mapped type, with the whole effective catalog and the host configuration
\* otherwise.
MatchingRecords(typeName) ==
    {k \in 1..Len(EffectiveCatalog.paymentMethods) :
        EffectiveCatalog.paymentMethods[k].type
            = (IF typeName = "card" THEN "scheme" ELSE typeName)}

C5_OpenArguments ==
    StartPassed =>
        /\ Count("open") = 1
        /\ LET open == calls[Len(calls)]
               matching == MatchingRecords(op.typeName)
           IN /\ open.fn = "open"
              /\ open.component = op.nativeComponent
              /\ IF matching # {}
                 THEN /\ Len(open.paymentMethods.paymentMethods) = 1
                      /\ \E k \in matching :
                             open.paymentMethods.paymentMethods[1]
                                 = EffectiveCatalog.paymentMethods[k]
                      /\ open.configuration.dropin
                             = [skipListWhenSinglePaymentMethod |-> TRUE]
                      /\ open.configuration.environment = config.environment
                      /\ open.configuration.returnUrl = config.returnUrl
                 ELSE /\ open.paymentMethods = EffectiveCatalog
                      /\ open.configuration = config

\* Scenario A on a catalog of two records: "card" narrows it to the scheme record.
C5_Witness ==
    /\ StartPassed
    /\ op.typeName = "card"
    /\ Len(EffectiveCatalog.paymentMethods) = 2
    /\ Len(calls[Len(calls)].paymentMethods.paymentMethods) = 1
    /\ calls[Len(calls)].paymentMethods.paymentMethods[1].type = "scheme"


\* C6: an onError event that reaches its listener: for errorCode
\* "canceledByShopper" hide(false) on the native handle comes first and the host
\* onError callback second; for any other code there is no hide; the host
\* callback is called once, with the error and the emitting flow's handle.
C6_ErrorListenerOrder ==
    (op.name = "emit" /\ op.event = "onError" /\ LiveOn(op.component, "onError")) =>
        /\ Count("host.onError") = 1
        /\ calls[Len(calls)] = CallOnError(op.payload, op.component)
        /\ IF op.payload.errorCode = "canceledByShopper"
           THEN Len(calls) = 2 /\ calls[1] = CallHide(op.component, FALSE)
           ELSE Len(calls) = 1 /\ Count("hide") = 0

C6_Witness ==
    /\ op.name = "emit" /\ op.event = "onError"
    /\ op.payload.errorCode = "canceledByShopper"
    /\ Len(calls) = 2
    /\ calls[1].fn = "hide"
    /\ calls[2].fn = "host.onError"

\* C7: an onSubmit event that reaches its listener: hide(false) on the native
\* handle comes first; the host onSubmit callback, when the host supplied one,
\* comes second, with the payment data, the native handle and the extra data,
\* and returnUrl is the payload's own unless the payload has none (undefined or
\* null), when it is the returnUrl of the configuration start was called with.
C7_SubmitListener ==
    (op.name = "emit" /\ op.event = "onSubmit" /\ LiveOn(op.component, "onSubmit")) =>
        /\ calls[1] = CallHide(op.component, FALSE)
        /\ Count("hide") = 1
        /\ "onSubmit" \in provided =>
               LET own == op.payload.paymentData.returnUrl
                   configuration == flows[Len(flows)].configuration
                   submit == calls[2]
               IN /\ Len(calls) = 2
                  /\ submit.fn = "host.onSubmit"
                  /\ submit.component = op.component
                  /\ submit.extra = op.payload.extra
                  /\ submit.data.paymentMethod = op.payload.paymentData.paymentMethod
                  /\ own \notin {Undefined, Null} => submit.data.returnUrl = own
                  /\ own \in {Undefined, Null} =>
                         submit.data.returnUrl = configuration.returnUrl

\* A payload without returnUrl: the callback got the configuration's.
C7_Witness ==
    /\ op.name = "emit" /\ op.event = "onSubmit"
    /\ op.payload.paymentData.returnUrl = Undefined
    /\ Len(calls) = 2
    /\ calls[1].fn = "hide"
    /\ calls[2].fn = "host.onSubmit"
    /\ calls[2].data.returnUrl = "myapp://cfg"

\* C8: a rejected createSession calls the host onError callback once, with
\* errorCode "sessionError", the JSON text of the rejection as message and the
\* session helper as origin, and stores no session response.
SerializedRejection(e) ==
    CASE e = [type |-> "object", code |-> 500] -> "{\"code\":500}"
      [] e = [type |-> "string", value |-> "timeout"] -> "\"timeout\""
      [] e = [type |-> "Error", message |-> "Network request failed"] -> "{}"

C8_SessionErrorReported ==
    op.name = "sessionReject" =>
        /\ Len(calls) = 1
        /\ calls[1].fn = "host.onError"
        /\ calls[1].error.errorCode = "sessionError"
        /\ calls[1].error.message = SerializedRejection(op.rejection)
        /\ calls[1].component = "SessionHelper"
        /\ calls[1].component \notin NativeComponents
        /\ Count("setSession") = 0
        /\ (sessionStorage # UndefinedObject =>
                \E r \in 1..Len(requests) :
                    r # op.request /\ requests[r] = sessionStorage.session)

\* Scenario C: the rejection {code: 500}.
C8_Witness ==
    /\ op.name = "sessionReject"
    /\ op.rejection = [type |-> "object", code |-> 500]
    /\ calls[1].error.message = "{\"code\":500}"
    /\ sessionStorage = UndefinedObject

\* C9: every session descriptor the host supplied has exactly one createSession
\* call, and there is no call without a supplied descriptor: a failure is not
\* retried.
RequestsFor(s) == {r \in 1..Len(requests) : requests[r] = s}

C9_SingleAttempt ==
    /\ \A s \in Sessions :
           Cardinality(RequestsFor(s)) = (IF s \in supplied THEN 1 ELSE 0)
    /\ Len(requests) = Cardinality(supplied)
    /\ pending \subseteq 1..Len(requests)

\* The first round trip failed, nothing was retried, and the host supplied a
\* second descriptor, which made the second call.
C9_Witness ==
    /\ op.name = "setSession"
    /\ Len(requests) = 2
    /\ pending = {2}
    /\ sessionStorage = UndefinedObject
    /\ Count("SessionHelper.createSession") = 1

\* C10: the catalog start uses and the context exposes is the explicitly
\* supplied paymentMethods whenever there is one, whatever the session state
\* holds; the stored session's catalog only without an explicit one; with
\* neither, start fails and opens nothing.
RecordsOf(pms) == {pms.paymentMethods[k] : k \in 1..Len(pms.paymentMethods)}

OpenedRecords == RecordsOf(calls[Len(calls)].paymentMethods)

C10_ExplicitCatalogFirst ==
    /\ paymentMethods # UndefinedObject =>
           /\ ContextValue.paymentMethods = paymentMethods
           /\ StartPassed => (OpenedRecords # {}
                              /\ OpenedRecords \subseteq RecordsOf(paymentMethods))
    /\ (paymentMethods = UndefinedObject /\ sessionStorage # UndefinedObject) =>
           /\ ContextValue.paymentMethods = sessionStorage.paymentMethods
           /\ StartPassed => (OpenedRecords # {}
                              /\ OpenedRecords \subseteq
                                     RecordsOf(sessionStorage.paymentMethods))
    /\ (paymentMethods = UndefinedObject /\ sessionStorage = UndefinedObject) =>
           /\ ContextValue.paymentMethods = UndefinedObject
           /\ StartRan => (op.outcome = "PaymentMethodsError" /\ Count("open") = 0)

\* Both catalogs are there and start opened the explicit one.
C10_Witness ==
    /\ StartPassed
    /\ paymentMethods # UndefinedObject
    /\ sessionStorage # UndefinedObject
    /\ OpenedRecords \subseteq RecordsOf(paymentMethods)

\* C11: every start that passes pre-flight subscribes to onSubmit and onError,
\* and to onAdditionalDetails / onComplete exactly when the handle's declared
\* events contain that name, each once; an event whose name the handle does
\* not declare runs no listener and reaches no host callback.
OptionalEvents == {"onAdditionalDetails", "onComplete"}

AddListenerCalls == SelectSeq(calls, LAMBDA c : c.fn = "addListener")

HostCalls ==
    SelectSeq(calls, LAMBDA c : c.fn \in {"host.onSubmit", "host.onError",
                                          "host.onAdditionalDetails",
                                          "host.onComplete"})

C11_ListenersFollowDeclaredEvents ==
    /\ StartPassed =>
           LET nc == op.nativeComponent
               expected == {"onSubmit", "onError"} \cup (events(nc) \cap OptionalEvents)
           IN /\ {AddListenerCalls[k].event : k \in 1..Len(AddListenerCalls)} = expected
              /\ Len(AddListenerCalls) = Cardinality(expected)
              /\ \A k \in 1..Len(AddListenerCalls) : AddListenerCalls[k].emitter = nc
              /\ \A e \in EventNames :
                     Live(HandleOf(Len(flows), e)) <=> e \in expected
    /\ (op.name = "emit" /\ op.event \notin events(op.component)) => calls = << >>
    /\ op.name = "emit" =>
           \A k \in 1..Len(HostCalls) : HostCalls[k].component = op.component

\* A handle declaring only onAdditionalDetails is live; it emits onComplete,
\* which it does not declare, and nothing is called.
C11_Witness ==
    /\ op.name = "emit"
    /\ op.component = "AdyenInstant"
    /\ op.event = "onComplete"
    /\ LiveOn("AdyenInstant", "onAdditionalDetails")
    /\ ~Live(HandleOf(Len(flows), "onComplete"))
    /\ provided = AllCallbacks
    /\ calls = << >>

\* C12: find returns the first record of the catalog whose type equals the
\* mapped name ("card" maps to "scheme", every other name to itself); "card"
\* on a catalog holding a "scheme" record returns a "scheme" record; with no
\* matching record the result is undefined.
MappedName(typeName) == IF typeName = "card" THEN "scheme" ELSE typeName

MatchingIndexes(list, t) == {k \in 1..Len(list) : list[k].type = t}

FirstIndex(S) == CHOOSE k \in S : \A j \in S : k <= j

C12_FindFirstMappedMatch ==
    op.name = "find" =>
        LET list == paymentMethods.paymentMethods
            matches == MatchingIndexes(list, MappedName(op.typeName))
        IN /\ matches # {} => op.result = list[FirstIndex(matches)]
           /\ matches = {} => op.result = UndefinedObject
           /\ (op.typeName = "card" /\ MatchingIndexes(list, "scheme") # {}) =>
                  (op.result # UndefinedObject /\ op.result.type = "scheme")

\* "card" asked of a catalog that lists a "card" record before a "scheme"
\* record: the "scheme" record is returned.
C12_Witness ==
    /\ op.name = "find"
    /\ op.typeName = "card"
    /\ paymentMethods = Response(<<PM("card", "A"), PM("scheme", "B")>>)
    /\ op.result = PM("scheme", "B")

\* C16: once the component is unmounted no subscription is live, the unmount
\* itself invoked remove() on every handle of the ref, and a native event
\* emitted after the unmount runs no listener: no host callback, no hide.
C16_UnmountDetaches ==
    /\ ~mounted => LiveHandles = {}
    /\ op.name = "unmount" =>
           /\ Len(calls) = Len(subscriptions)
           /\ \A k \in 1..Len(subscriptions) : calls[k] = CallRemove(subscriptions[k])
    /\ (~mounted /\ op.name = "emit") => calls = << >>

\* A flow was attached on the drop-in, the host unmounted, and the drop-in
\* then emitted onSubmit.
C16_Witness ==
    /\ ~mounted
    /\ op.name = "emit"
    /\ op.event = "onSubmit"
    /\ Len(flows) > 0
    /\ flows[Len(flows)].nativeComponent = op.component
    /\ InSubscriptions(HandleOf(Len(flows), "onSubmit"))
    /\ removes[HandleOf(Len(flows), "onSubmit")] = 1
    /\ provided = AllCallbacks
    /\ calls = << >>

\* C17: a createSession round trip that completes after the unmount is
\* ignored: its response is not stored and the host onError is not invoked.
C17_LateSessionResultIgnored ==
    (~mounted /\ op.name \in {"sessionResolve", "sessionReject"}) =>
        /\ Count("host.onError") = 0
        /\ sessionStorage # UndefinedObject =>
               sessionStorage.session # requests[op.request]

\* C20: when every createSession round trip has completed and the one for
\* the most recently supplied session descriptor resolved, the stored
\* session response is that one, whatever order the responses arrived in.
C20_LatestSessionWins ==
    (/\ mounted
     /\ session # Undefined
     /\ pending = {}
     /\ Len(requests) > 0
     /\ requests[Len(requests)] = session
     /\ Len(requests) \in resolved) =>
        /\ sessionStorage # UndefinedObject
        /\ sessionStorage.session = session
        /\ EffectiveCatalog =
               (IF paymentMethods # UndefinedObject THEN paymentMethods
                ELSE SessionCatalog(session))

\* C13: at most one presenter instance is registered under the tag at any
\* time; show while one is shown does not add a second.
C13_AtMostOneInstanceUnderTag == Cardinality(AddedFragments) <= 1

\* C14: handle and hide with no instance under the tag throw and do nothing
\* else; with an instance under the tag, handle hands the action to that
\* instance's view model and hide dismisses it.
C14_HandleAndHideNeedAnInstance ==
    /\ op.name = "handle" =>
           IF op.found = 0
           THEN op.outcome = "NullPointerException" /\ calls = << >>
           ELSE /\ op.outcome = "ok"
                /\ fragments[op.found].added
                /\ calls = <<CallViewModelHandle(op.found, op.action)>>
    /\ op.name = "hide" =>
           IF op.found = 0
           THEN op.outcome = "NullPointerException" /\ calls = << >>
           ELSE /\ op.outcome = "ok"
                /\ ~fragments[op.found].added
                /\ fragments[op.found].view \in {"none", "destroyed"}
                /\ calls = <<CallDismiss(op.found)>>
    /\ op.name \in {"handle", "hide"} => (op.found = 0 <=> op.outcome # "ok")
    /\ (op.name = "handle" /\ op.found = 0) => AddedFragments = {}

\* An instance was shown and hidden; the handle that follows finds none
\* and throws.
C14_Witness ==
    /\ op.name = "handle"
    /\ Len(fragments) = 1
    /\ ~fragments[1].added
    /\ op.found = 0
    /\ op.outcome = "NullPointerException"
    /\ calls = << >>

\* The views of an instance that are visible.
Visible(fr) ==
    {v \in {"errorView", "progressIndicator", "componentContainer"} :
        CASE v = "errorView" -> fr.errorView
          [] v = "progressIndicator" -> fr.progressIndicator
          [] OTHER -> fr.componentContainer}

ViewOf(tag) ==
    CASE tag = "Error" -> "errorView"
      [] tag = "Loading" -> "progressIndicator"
      [] OTHER -> "componentContainer"

LastViewState(fr) == fr.viewStates[Len(fr.viewStates)]

\* The last handler was onEvent with an AdditionalAction on an instance whose
\* view states so far were Loading, then ShowComponent.
ScenarioE ==
    /\ op.name = "onEvent"
    /\ op.event.tag = "AdditionalAction"
    /\ fragments[op.fragment].viewStates = <<"Loading", "ShowComponent">>

\* C15 as stated: after Loading, ShowComponent and an AdditionalAction event
\* exactly the component container is visible, the error text has not been
\* visible since the first view state, and the action went to handleAction.
C15_ScenarioE_ActionForwarded ==
    ScenarioE =>
        /\ Visible(fragments[op.fragment]) = {"componentContainer"}
        /\ ~fragments[op.fragment].errorSeen
        /\ calls = <<CallHandleAction(op.fragment, op.event.action)>>

\* C15 amended: the same, with the action going to handleAction exactly when
\* the component-data item has arrived (a component is attached); before
\* that the action is dropped and nothing is called.
C15_ScenarioE_ForwardedWhenAttached ==
    ScenarioE =>
        /\ Visible(fragments[op.fragment]) = {"componentContainer"}
        /\ ~fragments[op.fragment].errorSeen
        /\ fragments[op.fragment].componentData =>
               calls = <<CallHandleAction(op.fragment, op.event.action)>>
        /\ ~fragments[op.fragment].componentData => calls = << >>

\* Scenario E with the component attached: the action reached handleAction.
C15_Witness ==
    /\ ScenarioE
    /\ fragments[op.fragment].instantPaymentComponent # Null
    /\ op.event.action = "redirect"
    /\ calls = <<CallHandleAction(op.fragment, "redirect")>>
    /\ Visible(fragments[op.fragment]) = {"componentContainer"}

\* C18: while an instance has its view, the visible views are the layout's
\* until the first view state and from then on exactly the one view of the
\* last view state delivered, with the error text of the last Error; so the
\* component-data item and the events leave visibility as it was.
C18_VisibilityFollowsViewState ==
    \A f \in 1..Len(fragments) :
        LET fr == fragments[f]
        IN fr.binding =>
               IF fr.viewStates = << >>
               THEN /\ fr.errorView = layout.errorView
                    /\ fr.progressIndicator = layout.progressIndicator
                    /\ fr.componentContainer = layout.componentContainer
               ELSE /\ Visible(fr) = {ViewOf(LastViewState(fr))}
                    /\ Cardinality(Visible(fr)) = 1
                    /\ LastViewState(fr) = "Error" => fr.errorText = "Refused"

\* Loading, then ShowComponent, then the component-data item: the
\* component container alone stays visible.
C18_Witness ==
    /\ op.name = "setupInstantComponent"
    /\ fragments[op.fragment].viewStates = <<"Loading", "ShowComponent">>
    /\ layout.errorView
    /\ Visible(fragments[op.fragment]) = {"componentContainer"}

\* C19: onNewIntent calls handleIntent exactly when the instance has a
\* component, which is from the component-data item until the view is
\* destroyed; otherwise it calls nothing, and no other handler calls
\* handleIntent, so a dropped intent is not delivered later; handleIntent and
\* handleAction are never called on an instance whose view is destroyed.
ComponentCalls ==
    SelectSeq(calls, LAMBDA c : c.fn \in {"handleIntent", "handleAction"})

C19_IntentForwardedIffAttached ==
    /\ \A f \in 1..Len(fragments) :
           (fragments[f].instantPaymentComponent # Null)
               <=> (fragments[f].componentData /\ fragments[f].view = "started")
    /\ op.name = "onNewIntent" =>
           IF fragments[op.fragment].componentData
              /\ fragments[op.fragment].view = "started"
           THEN calls = <<CallHandleIntent(op.fragment, op.intent)>>
           ELSE calls = << >>
    /\ op.name # "onNewIntent" => Count("handleIntent") = 0
    /\ \A k \in 1..Len(ComponentCalls) :
           fragments[ComponentCalls[k].fragment].view = "started"

\* The component was attached, the view was destroyed, and the intent that
\* came afterwards was dropped.
C19_Witness ==
    /\ op.name = "onNewIntent"
    /\ fragments[op.fragment].componentData
    /\ fragments[op.fragment].view = "destroyed"
    /\ calls = << >>

====
